---- MODULE Spec2Model ----
(***************************************************************************)
(* Model of client_example/13_batchnorm/batchnorm_infer_nhwc.cpp: one      *)
(* session of main(): six SimpleDeviceMem buffers, the profiling loop over *)
(* the instances returned by GetInstances(), and the untimed run of the    *)
(* best instance.                                                          *)
(*                                                                         *)
(* The device operation instances are library objects reached through      *)
(* virtual calls (IsSupportedArgument, Run, GetTypeString); what they      *)
(* answer is an input of main().  Spec leaves every answer open; SpecPure  *)
(* restricts IsSupportedArgument to answer alike on structurally identical *)
(* Arguments.                                                              *)
(***************************************************************************)
EXTENDS Integers, Sequences, FiniteSets, TLC

\* ---------------------------------------------------------------- bounds
MaxInstances == 3      \* largest size of the instance vector
MaxTime      == 3      \* elapsed times are 0..MaxTime; MaxTime stands for FLT_MAX
MaxAllocFailures == 1  \* hipMalloc calls that may fail in one session
MaxRegistrations == 3  \* Register calls of one initialization

\* ------------------------------------------------------ program constants
Rank                  == 4
NumBatchNormReduceDim == 3
SizeofFloat           == 4

\* std::array literals of main(), dimension d of the source at position d+1
xyLengths               == <<16, 8, 128, 256>>
xyStrides               == <<8 * 128 * 256, 128 * 256, 256, 1>>
scaleBiasMeanVarLengths == <<256>>
scaleBiasMeanVarStrides == <<1>>
reduceDims              == <<0, 1, 2>>
invariantDims           == <<3>>

RECURSIVE Product(_)
Product(s) == IF s = <<>> THEN 1 ELSE Head(s) * Product(Tail(s))

numXYElement               == Product(xyLengths)
numScaleBiasMeanVarElement == Product(scaleBiasMeanVarLengths)

\* std::numeric_limits<float>::max(), the largest time a float can hold
FLT_MAX == MaxTime
Times   == 0..FLT_MAX

\* result of a float division by zero
FloatInf == 1073741824

\* the six SimpleDeviceMem objects, in declaration order
BufferNames == <<"x", "y", "scale", "bias", "mean", "variance">>
NumBuffers  == Len(BufferNames)
Buffers     == {BufferNames[k] : k \in 1..NumBuffers}
nullptr     == 0

\* element of a std::vector at a C++ (0-based) index
At(v, idx) == v[idx + 1]

\* the candidates a registry bucket can hold, by identity
Candidates == 1..MaxInstances

\* GetTypeString() of an instance
GetTypeString(op) == <<"DeviceElementwise", op>>
NoName == <<"", 0>>

VARIABLES
    pc,              \* position of main()
    registry,        \* the instance registry: signature -> instances in registration order
    registered,      \* the Register calls made so far: signature and instance
    mem,             \* p_mem_ of each SimpleDeviceMem (nullptr before/without allocation)
    constructed,     \* number of SimpleDeviceMem objects constructed so far
    device,          \* device allocations currently held, by address
    freed,           \* number of hipFree calls that released each address
    aligned_scaleBiasMeanVarStrides,
    op_ptrs,
    i,
    op_ptr,          \* the instance the current scope refers to (0: none)
    found, best_op_id, best_op_name, best_ave_time, best_gb_per_sec,
    arguments,       \* every Argument built so far, by creation order
    argument_ptr,    \* the Argument the current scope holds (index in arguments, 0: none)
    ave_time,
    checks,          \* IsSupportedArgument calls: argument, instance, source line, answer
    runs,            \* Invoker::Run calls: argument, instance, source line, timing flag, outcome
    out,             \* lines written to std::cout
    exit_code        \* "running", "0" (return 0), "terminate" (uncaught exception)
                     \* or "abort" (failed assert)

vars == <<pc, registry, registered, mem, constructed, device, freed,
          aligned_scaleBiasMeanVarStrides, op_ptrs, i, op_ptr,
          found, best_op_id, best_op_name, best_ave_time, best_gb_per_sec,
          arguments, argument_ptr, ave_time, checks, runs, out, exit_code>>

\* the variables grouped by what an action leaves alone
regVars  == <<registry, registered>>
memVars  == <<mem, constructed, device, freed>>
bestVars == <<found, best_op_id, best_op_name, best_ave_time, best_gb_per_sec>>

\* a registry bucket: candidates in registration order, each registered once
\* (the add_device_*_instances functions append in a fixed order)
Ascending(s) == \A a, b \in DOMAIN s : a < b => s[a] < s[b]
Buckets == {s \in UNION {[1..n -> Candidates] : n \in 0..MaxInstances} : Ascending(s)}

Line(kind, name, t, gb) == [kind |-> kind, name |-> name, ave_time |-> t, gb_per_sec |-> gb]

\* ------------------------------------------------------ instance registry
\* the operation signatures: DeviceOp of main(), the grouped convolution
\* backward-weight family, and one that nothing registers under
DeviceOp   == "DeviceElementwise"
Signatures == {DeviceOp, "DeviceGroupedConvBwdWeight", "Unregistered"}
RegisteredSignatures == {DeviceOp, "DeviceGroupedConvBwdWeight"}

\* Register(signature, candidate): append to the signature's bucket
RegistryAfterRegisterFront(reg, sig, op) ==
    IF sig \in DOMAIN reg
    THEN [reg EXCEPT ![sig] = <<op>> \o @]
    ELSE reg @@ (sig :> <<op>>)
RegistryAfterRegister(reg, sig, op) ==
    IF sig \in DOMAIN reg
    THEN [reg EXCEPT ![sig] = Append(@, op)]
    ELSE reg @@ (sig :> <<op>>)

\* GetInstances(signature): the bucket, empty for a signature without one
GetInstancesOf(reg, sig) == IF sig \in DOMAIN reg THEN reg[sig] ELSE <<>>

\* the registry and the call log after registering the instances of bucket b
\* under DeviceOp
RECURSIVE RegisterAll(_, _, _)
RegisterAll(reg, b, k) ==
    IF k > Len(b) THEN reg
    ELSE RegisterAll(RegistryAfterRegister(reg, DeviceOp, b[k]), b, k + 1)
EmptyRegistry == [sig \in {} |-> <<>>]
RegistrationsOf(b) == [k \in 1..Len(b) |-> [sig |-> DeviceOp, op |-> b[k]]]

\* main() before its first statement
InitSession ==
    /\ mem = [b \in Buffers |-> nullptr]
    /\ constructed = 0
    /\ device = {}
    /\ freed = [a \in 1..NumBuffers |-> 0]
    /\ aligned_scaleBiasMeanVarStrides = [d \in 1..Rank |-> 0]
    /\ op_ptrs = <<>>
    /\ i = 0
    /\ op_ptr = 0
    /\ found = FALSE
    /\ best_op_id = -1
    /\ best_op_name = NoName
    /\ best_ave_time = FLT_MAX
    /\ best_gb_per_sec = 0
    /\ arguments = <<>>
    /\ argument_ptr = 0
    /\ ave_time = 0
    /\ checks = <<>>
    /\ runs = <<>>
    /\ out = <<>>
    /\ exit_code = "running"

\* the process after initialization: the instances of DeviceOp registered
Init ==
    /\ pc = "alloc"
    /\ \E b \in Buckets :
          /\ registry = RegisterAll(EmptyRegistry, b, 1)
          /\ registered = RegistrationsOf(b)
    /\ InitSession

\* the process before any registration
InitRegistry ==
    /\ pc = "register"
    /\ registry = EmptyRegistry
    /\ registered = <<>>
    /\ InitSession

\* one Register call of the initialization phase
Register(sig, op) ==
    /\ pc = "register"
    /\ Len(registered) < MaxRegistrations
    /\ registry' = RegistryAfterRegister(registry, sig, op)
    /\ registered' = Append(registered, [sig |-> sig, op |-> op])
    /\ UNCHANGED <<pc, memVars, aligned_scaleBiasMeanVarStrides, op_ptrs, i, op_ptr,
                   bestVars, arguments, argument_ptr, ave_time, checks, runs, out,
                   exit_code>>

NextRegistry == \E sig \in RegisteredSignatures, op \in Candidates : Register(sig, op)

SpecRegistry == InitRegistry /\ [][NextRegistry]_vars

\* ------------------------------------------------------ SimpleDeviceMem
\* SimpleDeviceMem(mem_size): p_mem_{} then (void)hipMalloc(&p_mem_, mem_size).
\* The address hipMalloc hands out for the k-th buffer is k; on failure the
\* error is discarded and p_mem_ keeps its nullptr.
HipMallocResult(k, ok) == IF ok THEN k ELSE nullptr

\* constructed objects whose hipMalloc failed
AllocationFailures == {k \in 1..constructed : mem[BufferNames[k]] = nullptr}

Alloc(ok) ==
    /\ pc = "alloc"
    /\ constructed < NumBuffers
    /\ ok \/ Cardinality(AllocationFailures) < MaxAllocFailures
    /\ LET k == constructed + 1
           p == HipMallocResult(k, ok)
       IN  /\ mem' = [mem EXCEPT ![BufferNames[k]] = p]
           /\ device' = IF p # nullptr THEN device \cup {p} ELSE device
           /\ constructed' = k
    /\ pc' = IF constructed + 1 = NumBuffers THEN "setup" ELSE "alloc"
    /\ UNCHANGED <<regVars, freed, aligned_scaleBiasMeanVarStrides, op_ptrs, i,
                   op_ptr, bestVars, arguments, argument_ptr, ave_time, checks, runs, out,
                   exit_code>>

\* ~SimpleDeviceMem() of every constructed object: (void)hipFree(p_mem_).
\* hipFree(nullptr) releases nothing.
FreedBy(a) == Cardinality({k \in 1..constructed : mem[BufferNames[k]] = a})
DeviceAfterDestructors == device \ {mem[BufferNames[k]] : k \in 1..constructed}
FreedAfterDestructors  == [a \in 1..NumBuffers |-> freed[a] + FreedBy(a)]

\* ------------------------------------------------ broadcast stride array
\* assert(xyLengths[dim] == scaleBiasMeanVarLengths[i]) at loop index k
AssertLength(k) ==
    At(xyLengths, At(invariantDims, k)) = At(scaleBiasMeanVarLengths, k)

\* every pass of the loop gets past its assert
LengthsAsserted == \A k \in 0..(Len(invariantDims) - 1) : AssertLength(k)

\* the loop body with the write at the loop counter instead of at dim
RECURSIVE AlignStridesByPosition(_, _)
AlignStridesByPosition(aligned, k) ==
    IF k >= Len(invariantDims) THEN aligned
    ELSE IF ~AssertLength(k) THEN aligned
    ELSE AlignStridesByPosition([aligned EXCEPT ![k + 1] =
                                     At(scaleBiasMeanVarStrides, k)], k + 1)

\* for(auto dim : invariantDims) aligned[dim] = scaleBiasMeanVarStrides[i++]
\* a failing assert ends the loop (and the program) with the writes made so far
RECURSIVE AlignStrides(_, _)
AlignStrides(aligned, k) ==
    IF k >= Len(invariantDims) THEN aligned
    ELSE IF ~AssertLength(k) THEN aligned
    ELSE AlignStrides([aligned EXCEPT ![At(invariantDims, k) + 1] =
                                          At(scaleBiasMeanVarStrides, k)], k + 1)

\* hipMemset of variance, then the stride loop; a failed assert is abort(),
\* which runs no destructor
Setup ==
    /\ pc = "setup"
    /\ aligned_scaleBiasMeanVarStrides' =
           AlignStrides([d \in 1..Rank |-> 0], 0)
    /\ IF LengthsAsserted
       THEN pc' = "get_instances" /\ UNCHANGED exit_code
       ELSE pc' = "exited" /\ exit_code' = "abort"
    /\ UNCHANGED <<regVars, memVars, op_ptrs, i, op_ptr, bestVars, arguments,
                   argument_ptr, ave_time, checks, runs, out>>

\* ------------------------------------------------------------ instances
\* DeviceOperationInstanceFactory<DeviceOp>::GetInstances() and the two
\* announcements; the best-so-far record is declared here.
GetInstances ==
    /\ pc = "get_instances"
    /\ op_ptrs' = GetInstancesOf(registry, DeviceOp)
    /\ out' = out \o <<Line("found", NoName, Len(GetInstancesOf(registry, DeviceOp)), 0),
                       Line("Run all instances", NoName, 0, 0)>>
    /\ found' = FALSE
    /\ best_op_id' = -1
    /\ best_op_name' = NoName
    /\ best_ave_time' = FLT_MAX
    /\ best_gb_per_sec' = 0
    /\ i' = 0
    /\ pc' = "loop"
    /\ UNCHANGED <<regVars, memVars, aligned_scaleBiasMeanVarStrides, op_ptr,
                   arguments, argument_ptr, ave_time, checks, runs, exit_code>>

\* op_ptr->MakeArgumentPointer(...): the Argument binds the instance, the
\* descriptor and the six buffer handles.
MakeArgumentPointerOfFirst(op) ==
    [op          |-> At(op_ptrs, 0),
     lengths     |-> xyLengths,
     in_strides  |-> <<xyStrides,
                       aligned_scaleBiasMeanVarStrides,
                       aligned_scaleBiasMeanVarStrides,
                       aligned_scaleBiasMeanVarStrides,
                       aligned_scaleBiasMeanVarStrides>>,
     out_strides |-> <<xyStrides>>,
     in_buffers  |-> <<mem["x"], mem["mean"], mem["variance"], mem["scale"], mem["bias"]>>,
     out_buffers |-> <<mem["y"]>>]
MakeArgumentPointer(op) ==
    [op          |-> op,
     lengths     |-> xyLengths,
     in_strides  |-> <<xyStrides,
                       aligned_scaleBiasMeanVarStrides,
                       aligned_scaleBiasMeanVarStrides,
                       aligned_scaleBiasMeanVarStrides,
                       aligned_scaleBiasMeanVarStrides>>,
     out_strides |-> <<xyStrides>>,
     in_buffers  |-> <<mem["x"], mem["mean"], mem["variance"], mem["scale"], mem["bias"]>>,
     out_buffers |-> <<mem["y"]>>]

\* for(int i = 0; i < op_ptrs.size(); ++i): loop test, then the Argument,
\* invoker and name of op_ptrs[i]
LoopHeadMovesInstance ==
    /\ pc = "loop"
    /\ IF i < Len(op_ptrs)
       THEN /\ op_ptr' = At(op_ptrs, i)
            /\ op_ptrs' = [op_ptrs EXCEPT ![i + 1] = 0]
            /\ arguments' = Append(arguments, MakeArgumentPointer(At(op_ptrs, i)))
            /\ argument_ptr' = Len(arguments) + 1
            /\ pc' = "check"
       ELSE /\ UNCHANGED <<op_ptr, op_ptrs, arguments, argument_ptr>>
            /\ pc' = "after_loop"
    /\ UNCHANGED <<regVars, memVars, aligned_scaleBiasMeanVarStrides, i,
                   bestVars, ave_time, checks, runs, out, exit_code>>
LoopHead ==
    /\ pc = "loop"
    /\ IF i < Len(op_ptrs)
       THEN /\ op_ptr' = At(op_ptrs, i)
            /\ arguments' = Append(arguments, MakeArgumentPointer(At(op_ptrs, i)))
            /\ argument_ptr' = Len(arguments) + 1
            /\ pc' = "check"
       ELSE /\ UNCHANGED <<op_ptr, arguments, argument_ptr>>
            /\ pc' = "after_loop"
    /\ UNCHANGED <<regVars, memVars, aligned_scaleBiasMeanVarStrides, op_ptrs, i,
                   bestVars, ave_time, checks, runs, out, exit_code>>

\* which branch of if(op_ptr->IsSupportedArgument(argument_ptr.get())) the
\* profiling loop takes on answer r
SupportedBranchAlways(r) == TRUE
SupportedBranchInverted(r) == ~r
SupportedBranch(r) == r

\* the profiling loop's support check; r is the instance's answer
CheckSupport(r) ==
    /\ pc = "check"
    /\ checks' = Append(checks, [arg |-> argument_ptr, op |-> op_ptr, line |-> 124,
                                 result |-> r])
    /\ IF SupportedBranch(r)
       THEN /\ pc' = "profile"
            /\ UNCHANGED <<out, i, op_ptr, argument_ptr>>
       ELSE /\ out' = Append(out, Line("does not support", GetTypeString(op_ptr), 0, 0))
            /\ i' = i + 1
            /\ op_ptr' = 0
            /\ argument_ptr' = 0
            /\ pc' = "loop"
    /\ UNCHANGED <<regVars, memVars, aligned_scaleBiasMeanVarStrides, op_ptrs,
                   bestVars, arguments, ave_time, runs, exit_code>>

\* ------------------------------------------------------------ Invoker::Run
\* Run either returns the elapsed time or fails in the launch; the failure
\* is an exception that nothing in main() catches.
LaunchFailure == -1
RunOutcomes   == Times \cup {LaunchFailure}

\* uncaught exception: std::terminate; whether the stack is unwound first
\* (and the SimpleDeviceMem destructors run) is implementation-defined
Terminate(unwind) ==
    /\ pc' = "exited"
    /\ exit_code' = "terminate"
    /\ IF unwind
       THEN /\ device' = DeviceAfterDestructors
            /\ freed' = FreedAfterDestructors
       ELSE UNCHANGED <<device, freed>>

\* num_bytes of the profiling loop
num_bytes ==
    numXYElement * (SizeofFloat + SizeofFloat) +
    numScaleBiasMeanVarElement * (SizeofFloat + SizeofFloat + SizeofFloat + SizeofFloat)

\* float gb_per_sec = num_bytes / 1.E6 / ave_time, in whole units
GbPerSec(t) == IF t = 0 THEN FloatInf ELSE (num_bytes \div 1000000) \div t

\* the StreamConfig{stream_id_, time_kernel_} of the two Run calls
StreamConfigTimed   == [stream_id_ |-> nullptr, time_kernel_ |-> TRUE]
ProfileStreamConfig == [stream_id_ |-> nullptr, time_kernel_ |-> TRUE]
BestStreamConfig    == [stream_id_ |-> nullptr, time_kernel_ |-> FALSE]

\* invoker_ptr->Run(argument_ptr.get(), StreamConfig{nullptr, true}) and the
\* Perf line
ProfileRun(t, unwind) ==
    /\ pc = "profile"
    /\ runs' = Append(runs, [arg |-> argument_ptr, op |-> op_ptr, line |-> 126,
                             time_kernel |-> ProfileStreamConfig.time_kernel_,
                             result |-> t])
    /\ IF t = LaunchFailure
       THEN /\ Terminate(unwind)
            /\ UNCHANGED <<ave_time, out>>
       ELSE /\ ave_time' = t
            /\ out' = Append(out, Line("Perf", GetTypeString(op_ptr), t, GbPerSec(t)))
            /\ pc' = "update"
            /\ UNCHANGED <<device, freed, exit_code>>
    /\ UNCHANGED <<regVars, mem, constructed, aligned_scaleBiasMeanVarStrides, op_ptrs,
                   i, op_ptr, bestVars, arguments, argument_ptr, checks>>

\* if(ave_time < best_ave_time)
BetterOrEqual(t, best) == t <= best
BetterAlways(t, best) == TRUE
Worse(t, best) == t > best
Better(t, best) == t < best

\* the best-so-far update and the end of the loop body (++i)
UpdateBestKeepsName ==
    /\ pc = "update"
    /\ IF Better(ave_time, best_ave_time)
       THEN /\ found' = TRUE
            /\ best_op_id' = i
            /\ best_op_name' = best_op_name
            /\ best_ave_time' = ave_time
            /\ best_gb_per_sec' = GbPerSec(ave_time)
       ELSE UNCHANGED bestVars
    /\ i' = i + 1
    /\ op_ptr' = 0
    /\ argument_ptr' = 0
    /\ pc' = "loop"
    /\ UNCHANGED <<regVars, memVars, aligned_scaleBiasMeanVarStrides, op_ptrs,
                   arguments, ave_time, checks, runs, out, exit_code>>
UpdateBest ==
    /\ pc = "update"
    /\ IF Better(ave_time, best_ave_time)
       THEN /\ found' = TRUE
            /\ best_op_id' = i
            /\ best_op_name' = GetTypeString(op_ptr)
            /\ best_ave_time' = ave_time
            /\ best_gb_per_sec' = GbPerSec(ave_time)
       ELSE UNCHANGED bestVars
    /\ i' = i + 1
    /\ op_ptr' = 0
    /\ argument_ptr' = 0
    /\ pc' = "loop"
    /\ UNCHANGED <<regVars, memVars, aligned_scaleBiasMeanVarStrides, op_ptrs,
                   arguments, ave_time, checks, runs, out, exit_code>>

\* ------------------------------------------------------- run the best one
\* auto& op_ptr = op_ptrs[best_op_id]
ResolveFirst(ops, id) == At(ops, 0)
ResolveLast(ops, id) == At(ops, Len(ops) - 1)
ResolveBest(ops, id) == At(ops, id)

\* if(found): the Best Perf line, the instance at best_op_id, its new Argument
AfterLoop ==
    /\ pc = "after_loop"
    /\ IF found
       THEN /\ op_ptr' = ResolveBest(op_ptrs, best_op_id)
            /\ out' = out \o
                 <<Line("Best Perf", best_op_name, best_ave_time, best_gb_per_sec),
                   Line("Run the best instance",
                        GetTypeString(ResolveBest(op_ptrs, best_op_id)), 0, 0)>>
            /\ arguments' = Append(arguments,
                                   MakeArgumentPointer(ResolveBest(op_ptrs, best_op_id)))
            /\ argument_ptr' = Len(arguments) + 1
            /\ pc' = "recheck"
       ELSE /\ pc' = "return"
            /\ UNCHANGED <<op_ptr, out, arguments, argument_ptr>>
    /\ UNCHANGED <<regVars, memVars, aligned_scaleBiasMeanVarStrides, op_ptrs, i,
                   bestVars, ave_time, checks, runs, exit_code>>

\* the second if(op_ptr->IsSupportedArgument(argument_ptr.get())); a false
\* answer falls through to the Done line
Recheck(r) ==
    /\ pc = "recheck"
    /\ checks' = Append(checks, [arg |-> argument_ptr, op |-> op_ptr, line |-> 180,
                                 result |-> r])
    /\ pc' = IF r THEN "prod_run" ELSE "print_done"
    /\ UNCHANGED <<regVars, memVars, aligned_scaleBiasMeanVarStrides, op_ptrs, i,
                   op_ptr, bestVars, arguments, argument_ptr, ave_time, runs, out,
                   exit_code>>

\* invoker_ptr->Run(argument_ptr.get(), StreamConfig{nullptr, false}); the
\* returned time is dropped
ProdRun(t, unwind) ==
    /\ pc = "prod_run"
    /\ runs' = Append(runs, [arg |-> argument_ptr, op |-> op_ptr, line |-> 182,
                             time_kernel |-> BestStreamConfig.time_kernel_,
                             result |-> t])
    /\ IF t = LaunchFailure
       THEN Terminate(unwind)
       ELSE /\ pc' = "print_done"
            /\ UNCHANGED <<device, freed, exit_code>>
    /\ UNCHANGED <<regVars, mem, constructed, aligned_scaleBiasMeanVarStrides, op_ptrs,
                   i, op_ptr, bestVars, arguments, argument_ptr, ave_time, checks, out>>

\* std::cout << "Done"
PrintDone ==
    /\ pc = "print_done"
    /\ out' = Append(out, Line("Done", NoName, 0, 0))
    /\ op_ptr' = 0
    /\ argument_ptr' = 0
    /\ pc' = "return"
    /\ UNCHANGED <<regVars, memVars, aligned_scaleBiasMeanVarStrides, op_ptrs, i,
                   bestVars, arguments, ave_time, checks, runs, exit_code>>

\* return 0; the six SimpleDeviceMem destructors run
Return ==
    /\ pc = "return"
    /\ device' = DeviceAfterDestructors
    /\ freed' = FreedAfterDestructors
    /\ exit_code' = "0"
    /\ pc' = "exited"
    /\ UNCHANGED <<regVars, mem, constructed, aligned_scaleBiasMeanVarStrides, op_ptrs,
                   i, op_ptr, bestVars, arguments, argument_ptr, ave_time, checks, runs,
                   out>>

\* --------------------------------------------------------- specifications
\* IsSupportedArgument answers alike on structurally identical Arguments
PureAnswer(r) ==
    /\ argument_ptr \in DOMAIN arguments
    /\ \A c \in DOMAIN checks :
          arguments[checks[c].arg] = arguments[argument_ptr] => checks[c].result = r

Next ==
    \/ \E ok \in BOOLEAN : Alloc(ok)
    \/ Setup
    \/ GetInstances
    \/ LoopHead
    \/ \E r \in BOOLEAN : CheckSupport(r)
    \/ \E t \in RunOutcomes, unwind \in BOOLEAN : ProfileRun(t, unwind)
    \/ UpdateBest
    \/ AfterLoop
    \/ \E r \in BOOLEAN : Recheck(r)
    \/ \E t \in {0, LaunchFailure}, unwind \in BOOLEAN : ProdRun(t, unwind)
    \/ PrintDone
    \/ Return

Spec == Init /\ [][Next]_vars

NextPure ==
    \/ \E ok \in BOOLEAN : Alloc(ok)
    \/ Setup
    \/ GetInstances
    \/ LoopHead
    \/ \E r \in BOOLEAN : PureAnswer(r) /\ CheckSupport(r)
    \/ \E t \in RunOutcomes, unwind \in BOOLEAN : ProfileRun(t, unwind)
    \/ UpdateBest
    \/ AfterLoop
    \/ \E r \in BOOLEAN : PureAnswer(r) /\ Recheck(r)
    \/ \E t \in {0, LaunchFailure}, unwind \in BOOLEAN : ProdRun(t, unwind)
    \/ PrintDone
    \/ Return

SpecPure == Init /\ [][NextPure]_vars

TypeOK ==
    /\ pc \in {"register", "alloc", "setup", "get_instances", "loop", "check", "profile", "update",
               "after_loop", "recheck", "prod_run", "print_done", "return", "exited"}
    /\ found \in BOOLEAN
    /\ best_op_id \in -1..(MaxInstances - 1)
    /\ best_ave_time \in Times
    /\ exit_code \in {"running", "0", "terminate", "abort"}

\* ------------------------------------------------------------ properties
\* position of an instance in op_ptrs (0-based)
IndexOf(op) == CHOOSE j \in 0..(Len(op_ptrs) - 1) : At(op_ptrs, j) = op

\* the profiling loop has run to its end
LoopFinished ==
    /\ pc \in {"after_loop", "recheck", "prod_run", "print_done", "return", "exited"}
    /\ i = Len(op_ptrs)

ProfilingChecks == {c \in DOMAIN checks : checks[c].line = 124}
BestChecks      == {c \in DOMAIN checks : checks[c].line = 180}
TimedRuns       == {k \in DOMAIN runs : runs[k].time_kernel}
UntimedRuns     == {k \in DOMAIN runs : ~runs[k].time_kernel}
\* timed runs that returned an elapsed time
Profiled        == {k \in TimedRuns : runs[k].result # LaunchFailure}
FailedProfiles  == {k \in TimedRuns : runs[k].result = LaunchFailure}

\* C1: every Run is on an Argument that the same instance checked before,
\* and every check of that Argument answered true.
C1_RunOnlyAfterSupported ==
    \A k \in DOMAIN runs :
        /\ \E c \in DOMAIN checks :
              /\ checks[c].arg = runs[k].arg
              /\ checks[c].op = runs[k].op
              /\ checks[c].result
        /\ \A c \in DOMAIN checks : checks[c].arg = runs[k].arg => checks[c].result

\* a cycle with a declined candidate, a timed Run and the untimed Run
C1_Witness ==
    /\ \E c \in ProfilingChecks : ~checks[c].result
    /\ TimedRuns # {}
    /\ UntimedRuns # {}

\* C2: when the loop ends with found, best_op_id is the smallest index among
\* the profiled candidates whose time is the minimum.
MinProfiledTime == CHOOSE t \in Times :
    /\ \E k \in Profiled : runs[k].result = t
    /\ \A k \in Profiled : t <= runs[k].result

C2_FirstMinimalWins ==
    (LoopFinished /\ found) =>
        /\ Profiled # {}
        /\ \E k \in Profiled :
              /\ runs[k].result = MinProfiledTime
              /\ IndexOf(runs[k].op) = best_op_id
              /\ \A m \in Profiled :
                    runs[m].result = MinProfiledTime =>
                        best_op_id <= IndexOf(runs[m].op)

\* three supported candidates with times slow, fast, fast: index 1 is selected
C2_Witness ==
    /\ LoopFinished
    /\ found
    /\ Len(op_ptrs) >= 3
    /\ Len(runs) >= 3
    /\ runs[1].result = 2 /\ runs[2].result = 1 /\ runs[3].result = 1
    /\ best_op_id = 1

\* C3: the returned time is at most the time of every supported candidate,
\* and the returned candidate answered supported and was profiled with it.
C3_BestIsMinimum ==
    (LoopFinished /\ found) =>
        /\ \A c \in ProfilingChecks :
              checks[c].result =>
                  \E k \in Profiled :
                      /\ runs[k].arg = checks[c].arg
                      /\ best_ave_time <= runs[k].result
        /\ \E c \in ProfilingChecks :
              /\ checks[c].result
              /\ IndexOf(checks[c].op) = best_op_id
              /\ GetTypeString(checks[c].op) = best_op_name
              /\ \E k \in Profiled :
                    runs[k].arg = checks[c].arg /\ runs[k].result = best_ave_time

\* the best is not the last supported candidate, and a slower one follows it
C3_Witness ==
    /\ LoopFinished
    /\ found
    /\ \E k \in Profiled :
          IndexOf(runs[k].op) > best_op_id /\ runs[k].result > best_ave_time
    /\ \E c \in ProfilingChecks : ~checks[c].result

\* C4: when every candidate declines (or the bucket is empty) the loop ends
\* without found, no Run is made, and no Argument is rebuilt or re-checked.
AllDeclined == \A c \in ProfilingChecks : ~checks[c].result

C4_NoneSupported ==
    (LoopFinished /\ AllDeclined) =>
        /\ ~found
        /\ best_op_id = -1
        /\ runs = <<>>
        /\ BestChecks = {}
        /\ Len(arguments) = Len(op_ptrs)
        /\ pc \in {"after_loop", "return", "exited"}
        /\ \A l \in DOMAIN out : out[l].kind \notin {"Best Perf", "Run the best instance"}

\* a bucket of at least two candidates, all declining, and main() returned
C4_Witness ==
    /\ pc = "exited"
    /\ Len(op_ptrs) >= 2
    /\ Cardinality(ProfilingChecks) = Len(op_ptrs)
    /\ AllDeclined

\* C5: the loop ends without found only if no candidate was supported: when
\* a candidate answered supported and its timed Run returned, found is set
\* and the best is a supported candidate, whatever time the Run returned.
C5_SupportedImpliesFound ==
    (LoopFinished /\ Profiled # {}) =>
        /\ found
        /\ \E c \in ProfilingChecks :
              checks[c].result /\ IndexOf(checks[c].op) = best_op_id

\* C6: a re-check that answers false ends the cycle in a reported failure
\* that differs from normal completion, and the untimed Run is not made.
RecheckFailed == \E c \in BestChecks : ~checks[c].result

C6_MismatchIsFatal ==
    (RecheckFailed /\ pc = "exited") =>
        /\ UntimedRuns = {}
        /\ exit_code # "0"
        /\ \A l \in DOMAIN out : out[l].kind # "Done"

\* C7: a timed Run that fails does not abort the loop: the cycle does not
\* end before every candidate of the bucket has been checked, the failure is
\* logged, and the failing candidate is not the best.
C7_LaunchFailureIsSkipped ==
    (FailedProfiles # {} /\ pc = "exited") =>
        /\ Cardinality(ProfilingChecks) = Len(op_ptrs)
        /\ \A k \in FailedProfiles :
              /\ \E l \in DOMAIN out : out[l].name = GetTypeString(runs[k].op)
              /\ found => best_op_id # IndexOf(runs[k].op)

\* C8: with IsSupportedArgument pure, a finished loop with found is followed
\* by a re-check that answers true and by the untimed Run of the instance at
\* best_op_id; the cycle does not end without it.
C8_SelectedIsRun ==
    (LoopFinished /\ found) =>
        /\ \A c \in BestChecks : checks[c].result
        /\ pc \in {"print_done", "return", "exited"} =>
              \E k \in UntimedRuns : runs[k].op = At(op_ptrs, best_op_id)

\* main() returned after the untimed Run, in a bucket where the first
\* candidate declined
C8_Witness ==
    /\ pc = "exited"
    /\ exit_code = "0"
    /\ found
    /\ best_op_id > 0
    /\ ~checks[1].result
    /\ UntimedRuns # {}

\* C9: when a hipMalloc fails, the session is aborted: no Argument is built,
\* no candidate is checked or run, and main() does not return 0.
AllocationFailed == AllocationFailures # {}

C9_AllocationFailureAborts ==
    AllocationFailed =>
        /\ arguments = <<>>
        /\ checks = <<>>
        /\ runs = <<>>
        /\ exit_code # "0"

\* C10: when the session has ended, every address hipMalloc handed out has
\* been released by exactly one hipFree, and none is still held.
C10_ReleasedExactlyOnce ==
    pc = "exited" =>
        /\ device = {}
        /\ \A k \in 1..constructed :
              mem[BufferNames[k]] # nullptr => freed[mem[BufferNames[k]]] = 1
        /\ \A a \in DOMAIN freed : freed[a] <= 1

\* C11: every Run of the profiling loop has timing enabled, and every Run
\* of the best instance has timing disabled.
C11_TimingModes ==
    \A k \in DOMAIN runs :
        /\ runs[k].line = 126 => runs[k].time_kernel
        /\ runs[k].line = 182 => ~runs[k].time_kernel

\* a cycle with two profiling Runs and the Run of the best instance
C11_Witness ==
    /\ Cardinality({k \in DOMAIN runs : runs[k].line = 126}) >= 2
    /\ \E k \in DOMAIN runs : runs[k].line = 182

\* C12: the outcome of the loop is a function of the bucket, the support
\* answers and the timings alone: the index the loop ends with is the one
\* the selection rule yields from the recorded answers and times, whatever
\* else happened in the session.
\* the answer and the elapsed time recorded for the candidate at index j
RecordedAnswer(j) == checks[j + 1].result
RecordedTime(j) ==
    IF \E k \in Profiled : runs[k].arg = checks[j + 1].arg
    THEN runs[CHOOSE k \in Profiled : runs[k].arg = checks[j + 1].arg].result
    ELSE FLT_MAX

RECURSIVE SelectedFrom(_, _, _)
SelectedFrom(j, id, t) ==
    IF j >= Len(op_ptrs) THEN id
    ELSE IF RecordedAnswer(j) /\ RecordedTime(j) < t
         THEN SelectedFrom(j + 1, j, RecordedTime(j))
         ELSE SelectedFrom(j + 1, id, t)

C12_SelectionDeterministic ==
    LoopFinished =>
        /\ best_op_id = SelectedFrom(0, -1, FLT_MAX)
        /\ found = (SelectedFrom(0, -1, FLT_MAX) # -1)

\* a finished loop with a declined candidate and two candidates of equal time
C12_Witness ==
    /\ LoopFinished
    /\ found
    /\ \E c \in ProfilingChecks : ~checks[c].result
    /\ \E k, m \in Profiled : k # m /\ runs[k].result = runs[m].result
                               /\ runs[k].result = best_ave_time

\* C13: a cycle that has ended has ended in exactly one of NONE_SUPPORTED
\* (loop finished, nothing selected, nothing rebuilt), EXECUTE (loop
\* finished, the selected instance re-checked and run untimed) or
\* INCONSISTENT (loop finished, the re-check answered false, no untimed Run).
NONE_SUPPORTED == LoopFinished /\ ~found /\ BestChecks = {} /\ UntimedRuns = {}
EXECUTE        == LoopFinished /\ found /\ ~RecheckFailed /\ UntimedRuns # {}
INCONSISTENT   == LoopFinished /\ found /\ RecheckFailed /\ UntimedRuns = {}

C13_ThreeTerminalStates ==
    pc = "exited" =>
        /\ NONE_SUPPORTED \/ EXECUTE \/ INCONSISTENT
        /\ ~(NONE_SUPPORTED /\ EXECUTE)
        /\ ~(NONE_SUPPORTED /\ INCONSISTENT)
        /\ ~(EXECUTE /\ INCONSISTENT)

\* C14: at most one untimed Run is made in a cycle, and it is made on the
\* instance at index best_op_id of the vector GetInstances returned, after
\* the loop ended with found.
C14_RunsTheSelected ==
    /\ Cardinality(UntimedRuns) <= 1
    /\ \A k \in UntimedRuns :
          /\ LoopFinished
          /\ found
          /\ runs[k].op = At(op_ptrs, best_op_id)
          /\ runs[k].op = At(GetInstancesOf(registry, DeviceOp), best_op_id)

\* the middle candidate of three was selected and run untimed
C14_Witness ==
    /\ UntimedRuns # {}
    /\ Len(op_ptrs) >= 3
    /\ best_op_id = 1

\* C17: after any sequence of Register calls, GetInstances of a signature
\* is the sequence of the instances registered under it, in call order; a
\* signature nothing was registered under yields the empty sequence.
RECURSIVE RegisteredUnder(_, _)
RegisteredUnder(sig, calls) ==
    IF calls = <<>> THEN <<>>
    ELSE IF Head(calls).sig = sig
         THEN <<Head(calls).op>> \o RegisteredUnder(sig, Tail(calls))
         ELSE RegisteredUnder(sig, Tail(calls))

C17_GetInstancesIsRegistrationOrder ==
    \A sig \in Signatures :
        GetInstancesOf(registry, sig) = RegisteredUnder(sig, registered)

\* three calls, two signatures interleaved, two different instances under one
C17_Witness ==
    /\ Len(registered) = 3
    /\ registered[1].sig = DeviceOp
    /\ registered[2].sig # DeviceOp
    /\ registered[3].sig = DeviceOp
    /\ registered[1].op # registered[3].op
    /\ GetInstancesOf(registry, "Unregistered") = <<>>

\* C15: when the cycle has ended, the loop has checked every candidate of
\* the bucket exactly once, in increasing index; every candidate that
\* answered supported got exactly one timed Run and every other none.
C15_EveryCandidateVisitedOnce ==
    pc = "exited" =>
        /\ Cardinality(ProfilingChecks) = Len(op_ptrs)
        /\ \A j \in 0..(Len(op_ptrs) - 1) :
              /\ j + 1 \in ProfilingChecks
              /\ checks[j + 1].op = At(op_ptrs, j)
              /\ Cardinality({k \in TimedRuns : runs[k].arg = checks[j + 1].arg})
                    = IF checks[j + 1].result THEN 1 ELSE 0

\* C16: every Argument is checked and run only by the instance that built
\* it and is passed to at most one Run; each loop iteration and the run of
\* the best instance build an Argument of their own.
C16_ArgumentOwnedAndUsedOnce ==
    /\ \A c \in DOMAIN checks :
          /\ checks[c].arg \in DOMAIN arguments
          /\ arguments[checks[c].arg].op = checks[c].op
    /\ \A k \in DOMAIN runs :
          /\ runs[k].arg \in DOMAIN arguments
          /\ arguments[runs[k].arg].op = runs[k].op
    /\ \A a \in DOMAIN arguments :
          /\ Cardinality({k \in DOMAIN runs : runs[k].arg = a}) <= 1
          /\ Cardinality({c \in DOMAIN checks : checks[c].arg = a}) <= 1
    /\ \A c \in BestChecks : \A d \in ProfilingChecks : checks[c].arg # checks[d].arg
    /\ Len(arguments) <= Len(op_ptrs) + 1

\* two loop Arguments and the Argument of the best instance, which is not
\* the first candidate, all run
C16_Witness ==
    /\ Len(arguments) >= 3
    /\ UntimedRuns # {}
    /\ Cardinality(TimedRuns) >= 2
    /\ best_op_id > 0

\* C18: no step of main() changes the registry, and from the profiling loop
\* on no step changes op_ptrs: it stays the bucket GetInstances returned, so
\* best_op_id denotes the same instance when it is resolved.
C18_RegistryNotMutated ==
    [][pc # "register" =>
          /\ registry' = registry
          /\ pc \notin {"alloc", "setup", "get_instances"} =>
                /\ op_ptrs' = op_ptrs
                /\ op_ptrs' = GetInstancesOf(registry', DeviceOp)]_vars

\* the selected instance of a bucket of at least two is about to be run
C18_Witness ==
    /\ pc = "prod_run"
    /\ Len(op_ptrs) >= 2
    /\ best_op_id > 0
    /\ op_ptrs = GetInstancesOf(registry, DeviceOp)
    /\ op_ptr = At(op_ptrs, best_op_id)

\* C19: when the cycle has ended, every candidate the loop visited has left
\* exactly one record naming it (a Perf line if it answered supported, a
\* does-not-support line if it declined), and a re-check that answered false
\* has left a record naming the instance and the mismatch.
RecordsOf(op, kinds) ==
    {l \in DOMAIN out : out[l].name = GetTypeString(op) /\ out[l].kind \in kinds}

C19_EveryVisitLogged ==
    pc = "exited" =>
        /\ \A c \in ProfilingChecks :
              /\ Cardinality(RecordsOf(checks[c].op, {"Perf", "does not support"})) = 1
              /\ Cardinality(RecordsOf(checks[c].op, {"Perf"}))
                    = IF checks[c].result THEN 1 ELSE 0
        /\ \A c \in BestChecks :
              ~checks[c].result =>
                  RecordsOf(checks[c].op, {"SelectionExecutionMismatch"}) # {}

\* C20: in every state the best-so-far record is coherent: found is false
\* exactly when best_op_id is -1; when found, best_op_id is the index, not
\* beyond the current one, of a candidate that answered supported, and the
\* name, time and throughput are the ones recorded for that candidate; and
\* no step increases best_ave_time.
BestCoherent ==
    /\ found <=> best_op_id # -1
    /\ ~found => best_op_name = NoName /\ best_ave_time = FLT_MAX /\ best_gb_per_sec = 0
    /\ found =>
          /\ best_op_id \in 0..i
          /\ best_op_id < Len(op_ptrs)
          /\ best_op_id + 1 \in ProfilingChecks
          /\ checks[best_op_id + 1].result
          /\ checks[best_op_id + 1].op = At(op_ptrs, best_op_id)
          /\ best_op_name = GetTypeString(At(op_ptrs, best_op_id))
          /\ \E k \in Profiled :
                /\ runs[k].arg = checks[best_op_id + 1].arg
                /\ runs[k].result = best_ave_time
          /\ \E l \in DOMAIN out :
                out[l] = Line("Perf", GetTypeString(At(op_ptrs, best_op_id)),
                              best_ave_time, best_gb_per_sec)

C20_BestSoFarCoherent ==
    /\ BestCoherent
    /\ [][BestCoherent' /\ best_ave_time' <= best_ave_time]_vars

\* the best was replaced by a later, faster candidate and the loop goes on
C20_Witness ==
    /\ pc = "loop"
    /\ found
    /\ best_op_id > 0
    /\ i < Len(op_ptrs)
    /\ \E k \in Profiled : runs[k].result > best_ave_time

\* index sets of the descriptor's dimension lists
IndexSet(dims) == {At(dims, k) : k \in 0..(Len(dims) - 1)}

DimsPartition ==
    /\ IndexSet(reduceDims) \cup IndexSet(invariantDims) = 0..(Rank - 1)
    /\ IndexSet(reduceDims) \cap IndexSet(invariantDims) = {}
    /\ Len(reduceDims) = NumBatchNormReduceDim
    /\ Len(invariantDims) = Rank - NumBatchNormReduceDim

StrideLoopDone == pc \notin {"register", "alloc", "setup"}

\* C21: the reduce and invariant dimension index sets of the descriptor
\* partition 0..Rank-1, and once the stride loop has run, the broadcast stride
\* array holds at every dimension d the stride of the k-th scale/bias/mean/
\* variance dimension when d is the k-th invariant dimension and 0 when d is a
\* reduce dimension, and every assert of the loop held: the tensor length at
\* each invariant dimension equals the matching scale/bias/mean/variance length
\* and the program was not aborted.
C21_BroadcastStrides ==
    (StrideLoopDone /\ DimsPartition) =>
        /\ \A d \in 0..(Rank - 1) :
              /\ \A k \in 0..(Len(invariantDims) - 1) :
                     At(invariantDims, k) = d =>
                         At(aligned_scaleBiasMeanVarStrides, d) =
                             At(scaleBiasMeanVarStrides, k)
              /\ d \in IndexSet(reduceDims) =>
                     At(aligned_scaleBiasMeanVarStrides, d) = 0
        /\ \A k \in 0..(Len(invariantDims) - 1) :
              At(xyLengths, At(invariantDims, k)) = At(scaleBiasMeanVarLengths, k)
        /\ exit_code # "abort"

C21_Witness ==
    /\ pc = "get_instances"
    /\ DimsPartition
    /\ \E d \in IndexSet(invariantDims) :
           At(aligned_scaleBiasMeanVarStrides, d) # 0
    /\ \E d \in IndexSet(reduceDims) :
           At(aligned_scaleBiasMeanVarStrides, d) = 0

====
